---- MODULE Spec2Model ----
(***************************************************************************)
(* Model of the SurrealDB adapter for better-auth.                         *)
(*                                                                         *)
(*   src/src/index.ts     createTransform (getField, transformInput,       *)
(*                        transformOutput, convertWhereClause),            *)
(*                        surrealAdapter (ensureConnection, the CRUD       *)
(*                        operations, transaction)                         *)
(*   src/unnamed/part_001 the adapter-factory variant (serializeValue,     *)
(*                        buildWhereClause, the same ensureConnection)     *)
(*                                                                         *)
(* Values are typed: a value is a record [t, v] of its JavaScript /        *)
(* SurrealQL type and its text.  Query strings are modelled by what the    *)
(* store's parser makes of them: a quoted text is a string literal, an     *)
(* unquoted text is a number, a boolean, a record id or an identifier.     *)
(***************************************************************************)
EXTENDS Integers, Sequences, FiniteSets, TLC

VARIABLES
    db,                 \* index.ts:140  handle held by the adapter, 0 = null
    isConnecting,       \* index.ts:141
    connectionPromise,  \* index.ts:142  id of the pending attempt, 0 = null
    promises,           \* every connect call made so far and how it settled
    alive,              \* handles whose connection the store still serves
    store,              \* the store: table name -> set of rows
    nextId,             \* generateId(): ids handed out so far
    ops,                \* per caller: the operation in progress
    trx,                \* per caller: the transaction(callback) in progress
    calls,              \* operations called so far
    last,               \* the operation that completed last: its call and result
    whModel, whRows, whWhere, whVariant, whResult   \* predicate-compiler harness

whVars    == <<whModel, whRows, whWhere, whVariant, whResult>>
vars      == <<db, isConnecting, connectionPromise, promises, alive, store,
               nextId, ops, trx, calls, last,
               whModel, whRows, whWhere, whVariant, whResult>>

-----------------------------------------------------------------------------
(* Typed values                                                            *)

Str(x)    == [t |-> "string",  v |-> x]
Num(x)    == [t |-> "number",  v |-> x]
Bool(x)   == [t |-> "boolean", v |-> x]
Rid(x)    == [t |-> "record",  v |-> x]
Ident(x)  == [t |-> "ident",   v |-> x]
NONE      == [t |-> "none",    v |-> ""]
ArrayMark == [t |-> "array",   v |-> ""]

\* Texts the store's lexer reads as a number, a boolean or a record id when
\* they stand unquoted in a query; any other bare text is an identifier.
NumberTexts == {"1", "2"}
BoolTexts   == {"true", "false"}
RecordTexts == {"user:g1", "user:g2", "user:g3", "user:g4", "rateLimit:g1", "rateLimit:g2",
                "account:g1", "account:g2", "account:g3", "account:g4",
                "session:g1", "session:g2", "session:g3", "session:g4"}

\* Date.prototype.toISOString of the dates of the model
IsoText == [d \in {"2024-01-01"} |-> "2024-01-01T00:00:00.000Z"]

\* surrealdb jsonify: a RecordId is rendered to its string form and a Date to
\* its ISO text, every other value of the model is left as it is.
jsonify(val) ==
    CASE val.t = "record" -> Str(val.v)
      [] val.t = "date"   -> Str(IsoText[val.v])
      [] OTHER            -> val

\* `'${x}'` in a query text: whatever x was, the store reads a string.
Quoted(val) == Str(val.v)

\* `${x}` in a query text: the store reads the bare text of x.
Bare(val) ==
    CASE val.v \in NumberTexts -> Num(val.v)
      [] val.v \in BoolTexts   -> Bool(val.v)
      [] val.v \in RecordTexts -> Rid(val.v)
      [] val.t = "none"        -> NONE
      [] OTHER                 -> Ident(val.v)

-----------------------------------------------------------------------------
(* Schema (getAuthTables): entity -> logical field -> storage name          *)

NoDefault == [t |-> "undefined", v |-> ""]

F(name, type, ref, def) ==
    [fieldName |-> name, type |-> type, references |-> ref, defaultValue |-> def]

schema ==
    [ user      |-> [ email         |-> F("email", "string", "", NoDefault),
                      name          |-> F("name", "string", "", NoDefault),
                      emailVerified |-> F("emailVerified", "boolean", "", Bool("false")) ],
      account   |-> [ userId        |-> F("userId", "string", "user", NoDefault),
                      accountId     |-> F("accountId", "string", "", NoDefault) ],
      session   |-> [ userId        |-> F("userId", "string", "user", NoDefault),
                      token         |-> F("token", "string", "", NoDefault) ],
      rateLimit |-> [ key           |-> F("key", "string", "", NoDefault),
                      count         |-> F("count", "number", "", NoDefault) ],
      member    |-> [ userId        |-> F("userId", "string", "user", NoDefault),
                      role          |-> F("role", "string", "", Str("member")),
                      createdAt     |-> F("createdAt", "date", "",
                                          [t |-> "function", v |-> "2024-01-01"]) ] ]

getField(model, field) ==
    IF field = "id" THEN field
    ELSE IF model \in DOMAIN schema /\ field \in DOMAIN schema[model]
         THEN schema[model][field].fieldName
         ELSE field

EndsWithId(field) == field \in {"userId", "accountId", "providerId"}

-----------------------------------------------------------------------------
(* Predicate compiler.  A condition is [field, operator, value, values]:   *)
(* values holds the elements when value is an array.  A compiled fragment  *)
(* is [tok, field, rhs, list].                                             *)

Frag(tok, field, rhs)   == [tok |-> tok, field |-> field, rhs |-> rhs, list |-> <<>>]
FragIn(field, list)     == [tok |-> "IN", field |-> field, rhs |-> NONE, list |-> list]

IsRecordId(val) == val.t = "record"

\* index.ts:104  value === undefined || value === null
NullishNever(val) == FALSE
Nullish(val) == val.t \in {"none", "undefined", "null"}

convertClause(clause, model) ==
    LET field == getField(model, clause.field)
        value == clause.value
    IN  IF Nullish(value) THEN Frag("=", field, NONE)
        ELSE CASE clause.operator = "eq" ->
                    IF field = "id" \/ IsRecordId(value)
                    THEN Frag("=", field, Bare(jsonify(value)))
                    ELSE Frag("=", field, Quoted(jsonify(value)))
               [] clause.operator = "in" ->
                    FragIn(field, [i \in DOMAIN clause.values |->
                                       Bare(jsonify(clause.values[i]))])
               [] clause.operator = "contains" ->
                    Frag("CONTAINS", field, Quoted(jsonify(value)))
               [] clause.operator = "starts_with" ->
                    Frag("starts_with", field, Quoted(value))
               [] clause.operator = "ends_with" ->
                    Frag("ends_with", field, Quoted(value))
               [] OTHER ->
                    IF EndsWithId(field) \/ IsRecordId(value) \/ field = "id"
                    THEN Frag("=", field, Bare(jsonify(value)))
                    ELSE Frag("=", field, Quoted(jsonify(value)))

\* where.map(...).join(" AND "): the fragments, all of which must hold.
convertWhereClause(where, model) ==
    [i \in DOMAIN where |-> convertClause(where[i], model)]

-----------------------------------------------------------------------------
(* The adapter-factory variant of the compiler (src/unnamed/part_001)      *)

isRecordIdString(val) == val.v \in RecordTexts

isRecordIdField(field) ==
    field \in {"id", "userId", "sessionId", "organizationId", "teamId",
               "inviterId", "invitationId", "memberId"}

serializeValue(val, field) ==
    CASE Nullish(val)     -> NONE
      [] val.t = "string" -> IF isRecordIdField(field) /\ isRecordIdString(val)
                             THEN Rid(val.v)
                             ELSE Str(val.v)
      [] val.t \in {"number", "boolean"} -> val
      [] val.t = "record" -> Rid(val.v)
      [] OTHER            -> Str(val.v)

buildClause(clause) ==
    LET field == clause.field
        value == clause.value
        rhs   == serializeValue(value, field)
    IN  IF Nullish(value) THEN Frag("=", field, NONE)
        ELSE CASE clause.operator = "eq"  -> Frag("=", field, rhs)
               [] clause.operator = "ne"  -> Frag("!=", field, rhs)
               [] clause.operator = "gt"  -> Frag(">", field, rhs)
               [] clause.operator = "gte" -> Frag(">=", field, rhs)
               [] clause.operator = "lt"  -> Frag("<", field, rhs)
               [] clause.operator = "lte" -> Frag("<=", field, rhs)
               [] clause.operator = "in"  ->
                    FragIn(field, [i \in DOMAIN clause.values |->
                                       serializeValue(clause.values[i], field)])
               [] clause.operator = "contains"    -> Frag("CONTAINS", field, rhs)
               [] clause.operator = "starts_with" -> Frag("starts_with", field, rhs)
               [] clause.operator = "ends_with"   -> Frag("ends_with", field, rhs)
               [] OTHER -> Frag("=", field, rhs)

buildWhereClause(where) ==
    IF Len(where) = 0 THEN <<>>
    ELSE [i \in DOMAIN where |-> buildClause(where[i])]

-----------------------------------------------------------------------------
(* The store's evaluation of a compiled predicate on a row                 *)

Lookup(row, field) == IF field \in DOMAIN row THEN row[field] ELSE NONE

\* A literal stands for itself; an identifier is read from the row.
Operand(rhs, row) == IF rhs.t = "ident" THEN Lookup(row, rhs.v) ELSE rhs

\* The store's order on numbers and on strings; values of different types
\* are ordered by their type.
TextOrd == [x \in {"1", "2", "a", "b", "n"} |->
               CASE x = "1" -> 1 [] x = "2" -> 2 [] x = "a" -> 3 [] x = "b" -> 4 [] x = "n" -> 5]
TypeOrd(t) ==
    CASE t = "none" -> 0 [] t = "null" -> 1 [] t = "boolean" -> 2 [] t = "number" -> 3
      [] t = "string" -> 4 [] OTHER -> 5
Less(a, b) ==
    IF a.t = b.t /\ a.v \in DOMAIN TextOrd /\ b.v \in DOMAIN TextOrd
    THEN TextOrd[a.v] < TextOrd[b.v]
    ELSE TypeOrd(a.t) < TypeOrd(b.t)

\* CONTAINS, string::starts_with and string::ends_with on the texts of the
\* model, which are atoms: a text holds itself and the empty text.
HasPart(a, b) == a.t = "string" /\ b.t = "string" /\ (b.v = "" \/ a.v = b.v)

EvalFrag(frag, row) ==
    LET lhs == Lookup(row, frag.field)
    IN  CASE frag.tok = "="  -> lhs = Operand(frag.rhs, row)
          [] frag.tok = "!=" -> lhs # Operand(frag.rhs, row)
          [] frag.tok = "<"  -> Less(lhs, Operand(frag.rhs, row))
          [] frag.tok = "<=" -> ~Less(Operand(frag.rhs, row), lhs)
          [] frag.tok = ">"  -> Less(Operand(frag.rhs, row), lhs)
          [] frag.tok = ">=" -> ~Less(lhs, Operand(frag.rhs, row))
          [] frag.tok \in {"CONTAINS", "starts_with", "ends_with"} ->
                                HasPart(lhs, Operand(frag.rhs, row))
          [] frag.tok = "IN" -> \E i \in DOMAIN frag.list :
                                    lhs = Operand(frag.list[i], row)

EvalWhere(pred, row) == \A i \in DOMAIN pred : EvalFrag(pred[i], row)

\* SELECT * FROM <rows> WHERE pred
Select(rows, pred) == {r \in rows : EvalWhere(pred, r)}

-----------------------------------------------------------------------------
(* Harness for the predicate compiler: a table, a filter, the rows the     *)
(* compiled predicate selects.                                             *)

MaxWhRows == 2

UserRows ==
    { [id |-> Rid(i), email |-> Str(e), name |-> Str("n"), emailVerified |-> Bool(b)] :
        i \in {"user:g1", "user:g2"}, e \in {"a", "b"}, b \in BoolTexts }

RateLimitRows ==
    { [id |-> Rid(i), key |-> Str(k), count |-> Num(c)] :
        i \in {"rateLimit:g1", "rateLimit:g2"}, k \in {"a", "1"}, c \in NumberTexts }

WhCandidates(model) == IF model = "user" THEN UserRows ELSE RateLimitRows

WhFields(model) == IF model = "user" THEN {"id", "email", "emailVerified"}
                   ELSE {"id", "key", "count"}

WhScalars == {Str("a"), Str("b"), Str("1"), Str("user:g1"), Num("1"), Num("2"),
              Bool("true"), Bool("false")}

WhArrays == {<<x>> : x \in WhScalars} \cup
            {<<x, y>> : x \in {Str("a"), Num("1")}, y \in {Str("b"), Num("2")}}

WhConditions(model) ==
    { [field |-> f, operator |-> "eq", value |-> x, values |-> <<>>] :
        f \in WhFields(model), x \in WhScalars }
    \cup
    { [field |-> f, operator |-> "in", value |-> ArrayMark, values |-> a] :
        f \in WhFields(model), a \in WhArrays }

UniqueIds(rows) == \A r1, r2 \in rows : r1.id = r2.id => r1 = r2

-----------------------------------------------------------------------------
(* Value codec                                                             *)

Undefined == [t |-> "undefined", v |-> ""]
Null      == [t |-> "null", v |-> ""]

DateTexts == {"2024-01-01"}
isDateString(text) == text \in DateTexts

\* JavaScript truthiness, as `if (field.defaultValue)` tests it
Truthy(val) ==
    /\ val.t \notin {"undefined", "null", "none"}
    /\ val \notin {Bool("false"), Num("0"), Str("")}

shouldConvertToRecordId(fieldName, model) ==
    IF ~EndsWithId(fieldName) THEN FALSE
    ELSE IF fieldName \in {"providerId", "activeOrganizationId"} THEN FALSE
    ELSE IF fieldName = "accountId" /\ model = "account" THEN FALSE
    ELSE TRUE

\* field.defaultValue(): the generators of the schema return the date of
\* the call
Invoke(def) == [t |-> "date", v |-> def.v]

withApplyDefault(value, field, action, model) ==
    CASE action = "update" -> value
      [] value.t \in {"undefined", "null"} ->
            IF Truthy(field.defaultValue)
            THEN (IF field.defaultValue.t = "function"
                  THEN Invoke(field.defaultValue)
                  ELSE field.defaultValue)
            ELSE value
      [] field.references # "" -> Rid(value.v)
      [] shouldConvertToRecordId(field.fieldName, model) -> Rid(value.v)
      [] value.t = "string" /\ isDateString(value.v) -> [t |-> "date", v |-> value.v]
      [] OTHER -> value

\* part_001:215-232.  The fields the factory variant converts, the entity a
\* field name refers to (field.slice(0, -2)); value.includes(":") holds of the record texts
ConvertedField(field) == EndsWithId(field) /\ field \notin {"providerId", "accountId"}
RefModel == [userId |-> "user"]

transformValueForDBRewrap(field, value) ==
    IF value.t \in {"undefined", "null"} THEN value
    ELSE IF ConvertedField(field) /\ value.t \in {"string", "record"}
         THEN Rid(RefModel[field] \o ":" \o value.v)
         ELSE value

transformValueForDB(field, value) ==
    IF value.t \in {"undefined", "null"} THEN value
    ELSE IF ConvertedField(field) /\ value.t = "string"
         THEN IF value.v \notin RecordTexts
              THEN Rid(RefModel[field] \o ":" \o value.v)
              ELSE Rid(value.v)
         ELSE value

\* part_001:259-262, 345-348  the payload, each value transformed
transformPayload(data) == [k \in DOMAIN data |-> transformValueForDB(k, data[k])]

\* generateId(): the n-th fresh id
GenText == <<"g1", "g2", "g3", "g4">>

transformInput(data, model, action, fresh) ==
    LET fields  == schema[model]
        present == {f \in DOMAIN fields : f \in DOMAIN data /\ data[f].t # "undefined"}
        names   == {fields[f].fieldName : f \in present}
        logical(k) == CHOOSE f \in present : fields[f].fieldName = k
        idPart  == IF action = "update" THEN {} ELSE {"id"}
    IN  [k \in idPart \cup names |->
            IF k = "id" /\ action = "create" /\ k \notin names
            THEN (IF "id" \in DOMAIN data THEN data["id"] ELSE Str(GenText[fresh]))
            ELSE withApplyDefault(data[logical(k)], fields[logical(k)], action, model)]

\* A decode that never emits the identifier
transformOutputNoId(data, model, select) ==
    LET fields == schema[model]
        keys   == {k \in DOMAIN fields : Len(select) = 0 \/ \E i \in DOMAIN select : select[i] = k}
    IN  [k \in keys |->
            IF fields[k].fieldName \in DOMAIN data
            THEN jsonify(data[fields[k].fieldName])
            ELSE Undefined]

transformOutput(data, model, select) ==
    LET fields == schema[model]
        hasId  == "id" \in DOMAIN data /\ (Len(select) = 0 \/ \E i \in DOMAIN select : select[i] = "id")
        keys   == {k \in DOMAIN fields : Len(select) = 0 \/ \E i \in DOMAIN select : select[i] = k}
    IN  [k \in (IF hasId THEN {"id"} ELSE {}) \cup keys |->
            IF k = "id" /\ hasId THEN jsonify(data["id"])
            ELSE IF fields[k].fieldName \in DOMAIN data
                 THEN jsonify(data[fields[k].fieldName])
                 ELSE Undefined]

-----------------------------------------------------------------------------
(* The store's statements                                                  *)

Things ==
    [ user    |-> [g1 |-> "user:g1", g2 |-> "user:g2", g3 |-> "user:g3", g4 |-> "user:g4"],
      account |-> [g1 |-> "account:g1", g2 |-> "account:g2", g3 |-> "account:g3",
                   g4 |-> "account:g4"],
      session |-> [g1 |-> "session:g1", g2 |-> "session:g2", g3 |-> "session:g3",
                   g4 |-> "session:g4"] ]

\* db.create(model, content): the row inserted, its id made a record id of
\* the table
CreatedRow(model, content) ==
    [k \in DOMAIN content |->
        IF k = "id" THEN Rid(Things[model][content["id"].v]) ELSE content[k]]

\* UPDATE ... CONTENT would replace the row; the adapter sends MERGE
MergeReplace(row, patch) ==
    [k \in {"id"} \cup DOMAIN patch |-> IF k \in DOMAIN patch THEN patch[k] ELSE row[k]]

\* UPDATE ... MERGE $patch: the fields of the patch replace or extend the row's
Merge(row, patch) ==
    [k \in DOMAIN row \cup DOMAIN patch |->
        IF k \in DOMAIN patch THEN patch[k] ELSE row[k]]

\* SELECT count() ... GROUP ALL: one aggregate row per group, and an empty
\* selection has no group
CountRows(rows) ==
    IF rows = {} THEN <<>> ELSE <<[count |-> Cardinality(rows)]>>

-----------------------------------------------------------------------------
(* Bounds and inputs of the adapter model                                  *)

Callers   == {"A", "B"}
TrxCallers == {"A"}  \* the caller that uses transaction()
MaxRows   == 2      \* rows create may insert
MaxCalls  == 3      \* operations called, all callers together
MaxFaults == 1      \* connections that die plus connect calls that fail

Emails == {"a", "b"}
NewEmails == {"a"}   \* emails of the rows created; a filter on "b" matches none
Names  == {"x"}

EqEmail(e) == <<[field |-> "email", operator |-> "eq", value |-> Str(e), values |-> <<>>]>>
Filters    == {EqEmail(e) : e \in Emails}

JoinRequests == { <<[model |-> "account", opt |-> TRUE]>>,
                  <<[model |-> "account", opt |-> FALSE]>> }

NoResult     == [tag |-> "none",  err |-> "",  val |-> <<>>]
Ok(v)        == [tag |-> "ok",    err |-> "",  val |-> v]
NullResult   == [tag |-> "null",  err |-> "",  val |-> <<>>]
Failure(e)   == [tag |-> "error", err |-> e,   val |-> <<>>]

IdleOp ==
    [pc |-> "idle", kind |-> "none", where |-> <<>>, data |-> <<>>, join |-> <<>>,
     probed |-> 0, waitOn |-> 0, conn |-> 0, out |-> <<>>, joinQueries |-> 0,
     result |-> NoResult]

\* The record of a completed operation: the call, and what it returned.
NoCall ==
    [kind |-> "none", model |-> "", where |-> <<>>, data |-> <<>>, select |-> <<>>,
     join |-> <<>>, shape |-> "none", err |-> "", val |-> <<>>, rels |-> <<>>,
     queries |-> 0, given |-> TRUE, stmt |-> "none"]

NoTrx ==
    [status |-> "none", steps |-> 0, writes |-> {}, handles |-> {},
     probeFailed |-> FALSE, failed |-> FALSE]

Pending  == {p \in DOMAIN promises : promises[p] = "pending"}
Rejected == {p \in DOMAIN promises : promises[p] = "rejected"}
Resolved == {p \in DOMAIN promises : promises[p] = "resolved"}
Faults   == Cardinality(Rejected) + Cardinality(Resolved \ alive)

-----------------------------------------------------------------------------
(* ensureConnection                                                        *)

\* index.ts:145  if (db)
HeldNever == FALSE
Held == db # 0

\* index.ts:160  if (isConnecting && connectionPromise)
InFlightNever == FALSE
InFlight == isConnecting /\ connectionPromise # 0

\* What a caller awaiting promise p gets once p has settled.
Settled(op, p, state) ==
    IF state = "resolved"
    THEN [op EXCEPT !.pc = "query", !.conn = p]
    ELSE [op EXCEPT !.pc = "done", !.result = Failure("ConnectionError")]

\* index.ts:160-189: return the attempt in flight, or start one.  `op` is the
\* caller's record on reaching line 160.
JoinOrConnect(c, op) ==
    IF InFlight
    THEN /\ ops' = [ops EXCEPT ![c] =
                       IF promises[connectionPromise] = "pending"
                       THEN [op EXCEPT !.pc = "awaitConn", !.waitOn = connectionPromise]
                       ELSE Settled(op, connectionPromise, promises[connectionPromise])]
         /\ UNCHANGED <<isConnecting, connectionPromise, promises>>
    ELSE /\ isConnecting' = TRUE
         /\ promises' = Append(promises, "pending")
         /\ connectionPromise' = Len(promises) + 1
         /\ ops' = [ops EXCEPT ![c] =
                       [op EXCEPT !.pc = "awaitConn", !.waitOn = Len(promises) + 1]]

\* index.ts:144-148: the call; with a handle held it sends the probe.
EnsureConnection(c, op) ==
    IF Held
    THEN /\ ops' = [ops EXCEPT ![c] = [op EXCEPT !.pc = "probe", !.probed = db]]
         /\ UNCHANGED <<db, isConnecting, connectionPromise, promises>>
    ELSE /\ JoinOrConnect(c, op)
         /\ UNCHANGED db

\* index.ts:149  the probe answered: return db (the variable, read now)
ProbeOk(c) ==
    /\ ops[c].pc = "probe"
    /\ ops[c].probed \in alive
    /\ ops' = [ops EXCEPT ![c].pc = "query", ![c].conn = db, ![c].probed = 0]
    /\ UNCHANGED <<db, isConnecting, connectionPromise, promises, alive, store, nextId, trx, calls>>

\* A probe failure that keeps the dead handle while it reconnects.
ProbeFailKeepDb(c) ==
    /\ ops[c].pc = "probe"
    /\ ops[c].probed \notin alive
    /\ db' = db
    /\ JoinOrConnect(c, [ops[c] EXCEPT !.probed = 0])
    /\ trx' = [k \in Callers |->
                 IF trx[k].status = "running"
                 THEN [trx[k] EXCEPT !.probeFailed = TRUE] ELSE trx[k]]
    /\ UNCHANGED <<alive, store, nextId, calls>>

\* index.ts:150-162  the probe threw: db = null, then join or connect
ProbeFail(c) ==
    /\ ops[c].pc = "probe"
    /\ ops[c].probed \notin alive
    /\ db' = 0
    /\ JoinOrConnect(c, [ops[c] EXCEPT !.probed = 0])
    /\ trx' = [k \in Callers |->
                 IF trx[k].status = "running"
                 THEN [trx[k] EXCEPT !.probeFailed = TRUE] ELSE trx[k]]
    /\ UNCHANGED <<alive, store, nextId, calls>>

\* index.ts:176-181  connect resolved
ConnectSucceedNoDb(p) ==
    /\ p \in Pending
    /\ db' = db
    /\ isConnecting' = FALSE
    /\ connectionPromise' = 0
    /\ promises' = [promises EXCEPT ![p] = "resolved"]
    /\ alive' = alive \cup {p}
    /\ ops' = [c \in Callers |->
                 IF ops[c].pc = "awaitConn" /\ ops[c].waitOn = p
                 THEN Settled(ops[c], p, "resolved") ELSE ops[c]]
    /\ UNCHANGED <<store, nextId, trx, calls>>

\* A connect that installs the handle but never resolves its promise's waiters.
ConnectSucceedNoWake(p) ==
    /\ p \in Pending
    /\ db' = p
    /\ isConnecting' = FALSE
    /\ connectionPromise' = 0
    /\ promises' = [promises EXCEPT ![p] = "resolved"]
    /\ alive' = alive \cup {p}
    /\ UNCHANGED <<ops, store, nextId, trx, calls>>

ConnectSucceed(p) ==
    /\ p \in Pending
    /\ db' = p
    /\ isConnecting' = FALSE
    /\ connectionPromise' = 0
    /\ promises' = [promises EXCEPT ![p] = "resolved"]
    /\ alive' = alive \cup {p}
    /\ ops' = [c \in Callers |->
                 IF ops[c].pc = "awaitConn" /\ ops[c].waitOn = p
                 THEN Settled(ops[c], p, "resolved") ELSE ops[c]]
    /\ UNCHANGED <<store, nextId, trx, calls>>

\* index.ts:182-186  connect rejected
ConnectFailCached(p) ==
    /\ p \in Pending
    /\ Faults < MaxFaults
    /\ promises' = [promises EXCEPT ![p] = "rejected"]
    /\ ops' = [c \in Callers |->
                 IF ops[c].pc = "awaitConn" /\ ops[c].waitOn = p
                 THEN Settled(ops[c], p, "rejected") ELSE ops[c]]
    /\ UNCHANGED <<db, isConnecting, connectionPromise, alive, store, nextId, trx, calls>>

\* A rejection answered by connecting again on the waiting callers' behalf.
ConnectFailRetry(p) ==
    /\ p \in Pending
    /\ Faults < MaxFaults
    /\ isConnecting' = TRUE
    /\ connectionPromise' = Len(promises) + 1
    /\ promises' = Append([promises EXCEPT ![p] = "rejected"], "pending")
    /\ ops' = [c \in Callers |->
                 IF ops[c].pc = "awaitConn" /\ ops[c].waitOn = p
                 THEN [ops[c] EXCEPT !.waitOn = Len(promises) + 1] ELSE ops[c]]
    /\ UNCHANGED <<db, alive, store, nextId, trx, calls>>

ConnectFail(p) ==
    /\ p \in Pending
    /\ Faults < MaxFaults
    /\ isConnecting' = FALSE
    /\ connectionPromise' = 0
    /\ promises' = [promises EXCEPT ![p] = "rejected"]
    /\ ops' = [c \in Callers |->
                 IF ops[c].pc = "awaitConn" /\ ops[c].waitOn = p
                 THEN Settled(ops[c], p, "rejected") ELSE ops[c]]
    /\ UNCHANGED <<db, alive, store, nextId, trx, calls>>

\* The store's side: an established connection dies.
Die(h) ==
    /\ h \in alive
    /\ Faults < MaxFaults
    /\ alive' = alive \ {h}
    /\ UNCHANGED <<db, isConnecting, connectionPromise, promises, store, nextId, ops, trx, calls>>

-----------------------------------------------------------------------------
(* The operations.  The facade transaction() hands to its callback repeats  *)
(* the code of the adapter's operations (index.ts:370-520), so one action   *)
(* serves a call on the adapter and a call on the facade.                   *)

MayCall(c) ==
    /\ ops[c].pc = "idle"
    /\ calls < MaxCalls
    /\ \/ trx[c].status = "none"
       \/ trx[c].status = "running" /\ ~trx[c].failed

Creating == Cardinality({c \in Callers : ops[c].kind = "create" /\ ops[c].pc # "done"})

\* index.ts:197-201
Create(c, e) ==
    /\ MayCall(c)
    /\ nextId + Creating < MaxRows
    /\ EnsureConnection(c, [IdleOp EXCEPT !.kind = "create", !.data = [email |-> Str(e)]])
    /\ calls' = calls + 1
    /\ UNCHANGED <<alive, store, nextId, trx>>

\* index.ts:208-214
FindOne(c, w, j) ==
    /\ MayCall(c)
    /\ EnsureConnection(c, [IdleOp EXCEPT !.kind = "findOne", !.where = w, !.join = j])
    /\ calls' = calls + 1
    /\ UNCHANGED <<alive, store, nextId, trx>>

\* index.ts:297-298
Count(c, w) ==
    /\ MayCall(c)
    /\ EnsureConnection(c, [IdleOp EXCEPT !.kind = "count", !.where = w])
    /\ calls' = calls + 1
    /\ UNCHANGED <<alive, store, nextId, trx>>

\* index.ts:310-315
Update(c, w, n) ==
    /\ MayCall(c)
    /\ EnsureConnection(c, [IdleOp EXCEPT !.kind = "update", !.where = w,
                                          !.data = [name |-> Str(n)]])
    /\ calls' = calls + 1
    /\ UNCHANGED <<alive, store, nextId, trx>>

Finish(op, res) == [op EXCEPT !.pc = "done", !.result = res]

EnabledJoins(j) == SelectSeq(j, LAMBDA e : e.opt)

\* index.ts:228  if (!output) return null
findOneMissAsError(op) == Finish(op, Failure("PersistenceError"))
findOneMiss(op) == Finish(op, NullResult)

\* index.ts:215-230  findOne: the main query, on the row `output` it yields
findOneHit(op, output) ==
    LET found == [op EXCEPT !.out = output,
                            !.result = Ok(transformOutput(output, "user", <<>>)),
                            !.join = EnabledJoins(op.join)]
    IN  IF Len(found.join) = 0 THEN [found EXCEPT !.pc = "done"]
        ELSE [found EXCEPT !.pc = "join"]

\* index.ts:299-308  count, on the aggregate rows the store yields
countResult(op, agg) ==
    IF Len(agg) = 0 THEN Finish(op, Failure("PersistenceError"))
    ELSE Finish(op, Ok([count |-> agg[1].count]))

\* index.ts:325-326  update: if (!output) throw
updateMissAsNull(op) == Finish(op, NullResult)
updateMiss(op) == Finish(op, Failure("PersistenceError"))

\* UPDATE user MERGE $patch WHERE pred: the table afterwards
UpdateRows(rows, pred, patch) ==
    {IF EvalWhere(pred, r) THEN Merge(r, patch) ELSE r : r \in rows}

\* The operation's own query is answered (or throws).
Query(c) ==
    LET op   == ops[c]
        rows == store.user
        pred == convertWhereClause(op.where, "user")
        hit  == Select(rows, pred)
        inTrx == trx[c].status = "running"
    IN
    /\ op.pc = "query"
    /\ IF op.conn = 0
       THEN /\ ops' = [ops EXCEPT ![c] = Finish(op, Failure("NullHandle"))]
            /\ UNCHANGED <<store, nextId, trx>>
       ELSE
       /\ IF op.conn \notin alive
          THEN /\ ops' = [ops EXCEPT ![c] = Finish(op, Failure("DeadConnection"))]
               /\ UNCHANGED <<store, nextId>>
          ELSE CASE op.kind = "create" ->
                      LET content == transformInput(op.data, "user", "create", nextId + 1)
                          row     == CreatedRow("user", content)
                      IN  /\ store' = [store EXCEPT !.user = @ \cup {row}]
                          /\ nextId' = nextId + 1
                          /\ ops' = [ops EXCEPT ![c] =
                                       Finish(op, Ok(transformOutput(row, "user", <<>>)))]
                 [] op.kind = "findOne" ->
                      /\ IF hit = {}
                         THEN ops' = [ops EXCEPT ![c] = findOneMiss(op)]
                         ELSE \E output \in hit :
                                 ops' = [ops EXCEPT ![c] = findOneHit(op, output)]
                      /\ UNCHANGED <<store, nextId>>
                 [] op.kind = "count" ->
                      /\ ops' = [ops EXCEPT ![c] = countResult(op, CountRows(hit))]
                      /\ UNCHANGED <<store, nextId>>
                 [] op.kind = "update" ->
                      LET patch == transformInput(op.data, "user", "update", 0)
                          after == UpdateRows(rows, pred, patch)
                      IN  /\ store' = [store EXCEPT !.user = after]
                          /\ IF hit = {}
                             THEN ops' = [ops EXCEPT ![c] = updateMiss(op)]
                             ELSE \E r \in hit :
                                    ops' = [ops EXCEPT ![c] =
                                       Finish(op, Ok(transformOutput(Merge(r, patch), "user", <<>>)))]
                          /\ UNCHANGED nextId
       /\ trx' = [trx EXCEPT ![c] =
                    IF inTrx
                    THEN [@ EXCEPT !.handles = @ \cup {op.conn},
                                   !.writes = IF op.kind = "create" /\ op.conn \in alive
                                              THEN @ \cup {GenText[nextId + 1]} ELSE @]
                    ELSE @]
    /\ UNCHANGED <<db, isConnecting, connectionPromise, promises, alive, calls>>

\* index.ts:240-242  the relation's query for a record of model user:
\* SELECT * FROM <relation> WHERE userId = <the record's id>
joinRows(rel, output) ==
    {r \in store[rel] : Lookup(r, "userId") = Bare(jsonify(output["id"]))}

\* index.ts:233-262  one enabled relation: its query, then the next relation.
\* The operations of this model read the entity user, whose relations come
\* back as arrays (index.ts:259).
Join(c) ==
    LET op   == ops[c]
        rel  == Head(op.join).model
        rest == Tail(op.join)
        got  == {transformOutput(r, rel, <<>>) : r \in joinRows(rel, op.out)}
        val  == [k \in DOMAIN op.result.val \cup {rel} |->
                    IF k = rel THEN got ELSE op.result.val[k]]
    IN
    /\ op.pc = "join"
    /\ IF op.conn \notin alive
       THEN ops' = [ops EXCEPT ![c] = Finish(op, Failure("DeadConnection"))]
       ELSE ops' = [ops EXCEPT ![c] =
                      [op EXCEPT !.joinQueries = @ + 1, !.join = rest,
                                 !.result = Ok(val),
                                 !.pc = IF Len(rest) = 0 THEN "done" ELSE "join"]]
    /\ UNCHANGED <<db, isConnecting, connectionPromise, promises, alive, store, nextId, trx, calls>>

\* The operation's promise settles and its caller goes on.
Return(c) ==
    /\ ops[c].pc = "done"
    /\ ops' = [ops EXCEPT ![c] = IdleOp]
    /\ trx' = [trx EXCEPT ![c] =
                 IF @.status = "running"
                 THEN [@ EXCEPT !.steps = @ + 1,
                                !.failed = (ops[c].result.tag = "error")]
                 ELSE @]
    /\ UNCHANGED <<db, isConnecting, connectionPromise, promises, alive, store, nextId, calls>>

-----------------------------------------------------------------------------
(* transaction                                                             *)

\* index.ts:366-368
TrxBegin(c) ==
    /\ ops[c].pc = "idle"
    /\ trx[c].status = "none"
    /\ trx' = [trx EXCEPT ![c] = [NoTrx EXCEPT !.status = "running"]]
    /\ UNCHANGED <<db, isConnecting, connectionPromise, promises, alive, store, nextId, ops, calls>>

Outcomes(c) == IF trx[c].failed THEN {"rejected"} ELSE {"resolved", "rejected"}

\* index.ts:522  return callback(trxAdapter): the callback's own outcome,
\* with the store as the callback's steps left it
TrxSettleRollback(c) ==
    /\ trx[c].status = "running"
    /\ ops[c].pc = "idle"
    /\ \E outcome \in Outcomes(c) :
         /\ trx' = [trx EXCEPT ![c].status = outcome]
         /\ store' = IF outcome = "rejected"
                     THEN [store EXCEPT !.user = {r \in @ : \A g \in trx[c].writes :
                                                     r.id # Rid(Things.user[g])}]
                     ELSE store
    /\ UNCHANGED <<db, isConnecting, connectionPromise, promises, alive, nextId, ops, calls>>

TrxSettle(c) ==
    /\ trx[c].status = "running"
    /\ ops[c].pc = "idle"
    /\ \E outcome \in Outcomes(c) :
         trx' = [trx EXCEPT ![c].status = outcome]
    /\ UNCHANGED <<db, isConnecting, connectionPromise, promises, alive, store, nextId, ops, calls>>

TrxReturn(c) ==
    /\ trx[c].status \in {"resolved", "rejected"}
    /\ trx' = [trx EXCEPT ![c] = NoTrx]
    /\ UNCHANGED <<db, isConnecting, connectionPromise, promises, alive, store, nextId, ops, calls>>

-----------------------------------------------------------------------------
(* Specifications                                                          *)

WhIdle ==
    /\ whModel = "user"
    /\ whRows = {}
    /\ whWhere = <<>>
    /\ whVariant = "none"
    /\ whResult = {}

AdapterIdle ==
    /\ db = 0
    /\ isConnecting = FALSE
    /\ connectionPromise = 0
    /\ promises = <<>>
    /\ alive = {}
    /\ store = [user |-> {}, account |-> {}, session |-> {}]
    /\ nextId = 0
    /\ ops = [c \in Callers |-> IdleOp]
    /\ trx = [c \in Callers |-> NoTrx]
    /\ calls = 0
    /\ last = NoCall

Init == AdapterIdle /\ WhIdle

Next ==
    \/ \E c \in Callers, e \in NewEmails : Create(c, e) /\ UNCHANGED <<whVars, last>>
    \/ \E c \in Callers, w \in Filters, j \in JoinRequests : FindOne(c, w, j) /\ UNCHANGED <<whVars, last>>
    \/ \E c \in Callers, w \in Filters \cup {<<>>} : Count(c, w) /\ UNCHANGED <<whVars, last>>
    \/ \E c \in Callers, w \in Filters, n \in Names : Update(c, w, n) /\ UNCHANGED <<whVars, last>>
    \/ \E c \in Callers : ProbeOk(c) /\ UNCHANGED <<whVars, last>>
    \/ \E c \in Callers : ProbeFail(c) /\ UNCHANGED <<whVars, last>>
    \/ \E p \in DOMAIN promises : ConnectSucceed(p) /\ UNCHANGED <<whVars, last>>
    \/ \E p \in DOMAIN promises : ConnectFail(p) /\ UNCHANGED <<whVars, last>>
    \/ \E h \in alive : Die(h) /\ UNCHANGED <<whVars, last>>
    \/ \E c \in Callers : Query(c) /\ UNCHANGED <<whVars, last>>
    \/ \E c \in Callers : Join(c) /\ UNCHANGED <<whVars, last>>
    \/ \E c \in Callers : Return(c) /\ UNCHANGED <<whVars, last>>
    \/ \E c \in TrxCallers : TrxBegin(c) /\ UNCHANGED <<whVars, last>>
    \/ \E c \in TrxCallers : TrxSettle(c) /\ UNCHANGED <<whVars, last>>
    \/ \E c \in TrxCallers : TrxReturn(c) /\ UNCHANGED <<whVars, last>>

Spec == Init /\ [][Next]_vars

-----------------------------------------------------------------------------
(* The predicate compiler alone: a table, then filters compiled by either  *)
(* variant and executed on it.                                             *)

InitWhere ==
    /\ AdapterIdle
    /\ whModel \in {"user", "rateLimit"}
    /\ whRows \in {S \in SUBSET WhCandidates(whModel) :
                      Cardinality(S) <= MaxWhRows /\ UniqueIds(S)}
    /\ whWhere = <<>>
    /\ whVariant = "none"
    /\ whResult = {}

adapterVars == <<db, isConnecting, connectionPromise, promises, alive, store,
                 nextId, ops, trx, calls, last>>

\* index.ts:97-131 and the query of index.ts:280-295
ExecConvert(w) ==
    /\ whWhere' = w
    /\ whVariant' = "index"
    /\ whResult' = Select(whRows, convertWhereClause(w, whModel))
    /\ UNCHANGED <<whModel, whRows, adapterVars>>

\* part_001:167-209 and the query of part_001:305-339
ExecBuild(w) ==
    /\ whWhere' = w
    /\ whVariant' = "factory"
    /\ whResult' = Select(whRows, buildWhereClause(w))
    /\ UNCHANGED <<whModel, whRows, adapterVars>>

NextWhere ==
    \/ \E cond \in WhConditions(whModel) : ExecConvert(<<cond>>)
    \/ \E cond \in WhConditions(whModel) : ExecBuild(<<cond>>)

SpecWhere == InitWhere /\ [][NextWhere]_vars

-----------------------------------------------------------------------------
(* The connection manager alone: callers that count the rows of a table,   *)
(* over more calls than the adapter model above goes through.              *)

MaxConnCalls == 4    \* operations called, all callers together

\* index.ts:297-298  count({ model })
CountAll(c) ==
    /\ ops[c].pc = "idle"
    /\ calls < MaxConnCalls
    /\ EnsureConnection(c, [IdleOp EXCEPT !.kind = "count"])
    /\ calls' = calls + 1
    /\ UNCHANGED <<alive, store, nextId, trx>>

NextConn ==
    \/ \E c \in Callers : CountAll(c) /\ UNCHANGED <<whVars, last>>
    \/ \E c \in Callers : ProbeOk(c) /\ UNCHANGED <<whVars, last>>
    \/ \E c \in Callers : ProbeFail(c) /\ UNCHANGED <<whVars, last>>
    \/ \E p \in DOMAIN promises : ConnectSucceed(p) /\ UNCHANGED <<whVars, last>>
    \/ \E p \in DOMAIN promises : ConnectFail(p) /\ UNCHANGED <<whVars, last>>
    \/ \E h \in alive : Die(h) /\ UNCHANGED <<whVars, last>>
    \/ \E c \in Callers : Query(c) /\ UNCHANGED <<whVars, last>>
    \/ \E c \in Callers : Return(c) /\ UNCHANGED <<whVars, last>>

SpecConn == Init /\ [][NextConn]_vars

-----------------------------------------------------------------------------
(* The operations alone (index.ts:197-363), each run from its call to its  *)
(* return on a connection that serves every query.                         *)

MaxCrudRows == 2     \* rows the creates insert

Entities == {"user", "account", "session", "ghost"}   \* ghost is in no schema

Known(model) == model \in DOMAIN schema

\* FROM <model>: a table nobody wrote to has no rows
Table(model) == IF model \in DOMAIN store THEN store[model] ELSE {}

SetTable(model, rows) ==
    IF model \in DOMAIN store THEN [store EXCEPT ![model] = rows] ELSE store

Cond(f, x) == [field |-> f, operator |-> "eq", value |-> x, values |-> <<>>]

ByEmail(e) == <<Cond("email", Str(e))>>
ById(i)    == <<Cond("id", Str(i))>>

JoinOpt(m, o) == [model |-> m, opt |-> o]

CreateInputs(model) ==
    CASE model = "user"    -> { [email |-> Str("a")],
                                [email |-> Str("b"), name |-> Str("x")],
                                [email |-> Str("a"), name |-> Str("2024-01-01")] }
      [] model = "account" -> { [userId |-> Str("user:g1"), accountId |-> Str("p1")],
                                [userId |-> Str("g1"), accountId |-> Str("p1")] }
      [] model = "session" -> { [userId |-> Str("user:g1"), token |-> Str("t")] }
      [] OTHER             -> { [email |-> Str("a")] }

FindArgs(w, sel, j) == [where |-> w, select |-> sel, join |-> j]

FindOneInputs(model) ==
    CASE model = "user" ->
            { FindArgs(ByEmail("a"), <<>>, <<>>),
              FindArgs(ByEmail("b"), <<>>, <<>>),
              FindArgs(ById("user:g1"), <<>>, <<>>),
              FindArgs(ByEmail("a"), <<"email">>, <<>>),
              FindArgs(ById("user:g1"), <<"id", "email">>, <<>>),
              FindArgs(ById("user:g1"), <<>>, <<JoinOpt("account", TRUE)>>),
              FindArgs(ById("user:g1"), <<>>,
                       <<JoinOpt("account", FALSE), JoinOpt("session", TRUE)>>),
              FindArgs(ByEmail("a"), <<>>,
                       <<JoinOpt("account", TRUE), JoinOpt("session", TRUE)>>) }
              \cup { FindArgs(<<>>, <<>>, <<>>) }
      [] model = "account" ->
            { FindArgs(ById("account:g2"), <<>>, <<>>),
              FindArgs(<<Cond("accountId", Str("p1"))>>, <<>>, <<>>) }
      [] model = "session" ->
            { FindArgs(<<Cond("token", Str("t"))>>, <<>>, j) :
                j \in { <<>>, <<JoinOpt("user", TRUE)>>, <<JoinOpt("user", FALSE)>> } }
      [] OTHER ->
            { FindArgs(ByEmail("a"), <<>>, <<>>) }

\* The filters of findMany, count and deleteMany, and those of delete
ManyFilters(model)   == IF model = "user" THEN {ByEmail("a"), ByEmail("b")}
                        ELSE {ByEmail("a")}

\* findMany and count take `where?`: a filter, the empty list, or none.
ManyArgs(model) ==
    { [given |-> TRUE, where |-> w] : w \in ManyFilters(model) }
    \cup (IF model = "user"
          THEN {[given |-> TRUE, where |-> <<>>], [given |-> FALSE, where |-> <<>>]}
          ELSE {})
DeleteFilters(model) ==
    CASE model = "user"    -> {ByEmail("a"), ByEmail("b"), ById("user:g1")}
      [] model = "session" -> {<<Cond("token", Str("t"))>>}
      [] OTHER             -> {ByEmail("a")}

UpdateArgs(w, d) == [where |-> w, data |-> d]

UpdateInputs(model) ==
    CASE model = "user" ->
            { UpdateArgs(w, d) :
                w \in {ByEmail("a"), ByEmail("b"), ById("user:g1")},
                d \in {[name |-> Str("y")],
                       [email |-> Str("b"), emailVerified |-> Bool("true")]} }
      [] model = "account" ->
            { UpdateArgs(<<Cond("accountId", Str("p1"))>>, [accountId |-> Str("p2")]) }
      [] OTHER ->
            { UpdateArgs(ByEmail("a"), [name |-> Str("y")]) }

UpdateManyInputs(model) ==
    { UpdateArgs(ByEmail("a"), d) :
        d \in IF model = "user"
              THEN {[name |-> Str("y")], [email |-> Str("b"), emailVerified |-> Bool("true")]}
              ELSE {[name |-> Str("y")]} }

\* The WHERE part of the statement an operation submits: "bare" is a
\* statement without WHERE, "vacant" one whose WHERE has nothing after it.
\* index.ts:222, 318, 332, 341, 353  `... WHERE ${whereClause}`
WhereAlways(where) == IF Len(where) = 0 THEN "vacant" ELSE "where"
\* index.ts:281-284  if (where) query += ` WHERE ${whereClause}`
WhereIfGiven(given, where) == IF given THEN WhereAlways(where) ELSE "bare"
\* index.ts:299-302  whereClause ? `... WHERE ${whereClause} ...` : `...`
WhereIfAny(given, where) == IF given /\ Len(where) > 0 THEN "where" ELSE "bare"

Call(kind, model, where, data, select, join) ==
    [NoCall EXCEPT !.kind = kind, !.model = model, !.where = where, !.data = data,
                   !.select = select, !.join = join,
                   !.stmt = IF kind = "create" THEN "none" ELSE WhereAlways(where)]

Returned(call, shape, val) == [call EXCEPT !.shape = shape, !.val = val]
Thrown(call, e)            == [call EXCEPT !.shape = "error", !.err = e]

\* new StringRecordId(text) whose text the store cannot read as table:id
Unparseable(content) ==
    \E k \in DOMAIN content : content[k].t = "record" /\ content[k].v \notin RecordTexts

\* SELECT f1, f2 FROM ...: the row restricted to the fields asked for
Project(row, select, model) ==
    IF Len(select) = 0 THEN row
    ELSE LET asked == {getField(model, select[i]) : i \in DOMAIN select}
         IN  [k \in asked \cap DOMAIN row |-> row[k]]

crudConn == <<db, isConnecting, connectionPromise, promises, alive, ops, trx, calls>>

\* index.ts:197-207
create(model, data) ==
    LET call == Call("create", model, <<>>, data, <<>>, <<>>)
    IN
    /\ nextId < MaxCrudRows
    /\ IF ~Known(model)
       THEN /\ last' = Thrown(call, "ModelNotFound")
            /\ UNCHANGED <<store, nextId>>
       ELSE LET content == transformInput(data, model, "create", nextId + 1)
                row     == CreatedRow(model, content)
            IN  IF Unparseable(content)
                THEN /\ last' = Thrown(call, "QueryError")
                     /\ UNCHANGED <<store, nextId>>
                ELSE /\ store' = SetTable(model, Table(model) \cup {row})
                     /\ nextId' = nextId + 1
                     /\ last' = Returned(call, "record", transformOutput(row, model, <<>>))
    /\ UNCHANGED <<crudConn, whVars>>

ForeignKey == [user |-> "userId", account |-> "accountId", session |-> "sessionId"]

\* index.ts:240-254  the rows the relation's query yields
joinResults(model, rel, output) ==
    IF rel = "account" /\ model = "user"
    THEN {r \in Table("account") :
             Lookup(r, "userId") = Bare(jsonify(Lookup(output, "id")))}
    ELSE IF rel = "user" /\ model = "session"
    THEN {r \in Table("user") :
             Lookup(r, "id") = Bare(jsonify(Lookup(output, "userId")))}
    ELSE {r \in Table(rel) :
             Lookup(r, ForeignKey[model]) = Bare(jsonify(Lookup(output, "id")))}

\* index.ts:256-261  what the record gets under the relation's name
unwrapAlways(model, rel) == TRUE
unwrap(model, rel) == rel = "user" /\ model = "session"

joinValue(model, rel, output) ==
    LET got == joinResults(model, rel, output)
    IN  IF unwrap(model, rel)
        THEN IF got = {} THEN [shape |-> "null", rows |-> {}]
             ELSE [shape |-> "record",
                   rows  |-> {transformOutput(CHOOSE r \in got : TRUE, rel, <<>>)}]
        ELSE [shape |-> "array", rows |-> {transformOutput(r, rel, <<>>) : r \in got}]

\* index.ts:234  if (!joinOpt) continue
joinAll(j) == j
joinEnabled(j) == EnabledJoins(j)

\* index.ts:208-265
findOne(model, where, select, join) ==
    LET call == Call("findOne", model, where, <<>>, select, join)
        hit  == Select(Table(model), convertWhereClause(where, model))
    IN
    /\ IF call.stmt = "vacant"
       THEN last' = [Thrown(call, "QueryError") EXCEPT !.queries = 1]
       ELSE IF hit = {}
       THEN last' = [Returned(call, "null", <<>>) EXCEPT !.queries = 1]
       ELSE \E row \in hit :
              LET output == Project(row, select, model)
                  asked  == joinEnabled(join)
                  rels   == {asked[i].model : i \in DOMAIN asked}
              IN  last' = [Returned(call, "record", transformOutput(output, model, select))
                             EXCEPT !.queries = 1 + Len(asked),
                                    !.rels = [rel \in rels |-> joinValue(model, rel, output)]]
    /\ UNCHANGED <<store, nextId, crudConn, whVars>>

\* index.ts:266-296.  The store rejects a statement whose WHERE has no
\* predicate.
findMany(model, given, where) ==
    LET call == [Call("findMany", model, where, <<>>, <<>>, <<>>)
                   EXCEPT !.given = given, !.stmt = WhereIfGiven(given, where)]
        hit  == Select(Table(model), convertWhereClause(where, model))
    IN
    /\ last' = IF call.stmt = "vacant" THEN Thrown(call, "QueryError")
               ELSE Returned(call, "array", {transformOutput(r, model, <<>>) : r \in hit})
    /\ UNCHANGED <<store, nextId, crudConn, whVars>>

\* index.ts:297-309
count(model, given, where) ==
    LET call == [Call("count", model, where, <<>>, <<>>, <<>>)
                   EXCEPT !.given = given, !.stmt = WhereIfAny(given, where)]
        agg  == CountRows(Select(Table(model), convertWhereClause(where, model)))
    IN
    /\ last' = IF Len(agg) = 0 THEN Thrown(call, "PersistenceError")
               ELSE Returned(call, "number", agg[1].count)
    /\ UNCHANGED <<store, nextId, crudConn, whVars>>

\* index.ts:310-328.  UPDATE without a RETURN clause yields the rows as they
\* are after the statement; the operation returns the first of them.
update(model, where, data) ==
    LET call == Call("update", model, where, data, <<>>, <<>>)
        pred == convertWhereClause(where, model)
        hit  == Select(Table(model), pred)
    IN
    /\ IF ~Known(model)
       THEN /\ last' = Thrown(call, "ModelNotFound")
            /\ UNCHANGED store
       ELSE LET patch == transformInput(data, model, "update", 0)
            IN  /\ store' = SetTable(model, UpdateRows(Table(model), pred, patch))
                /\ IF hit = {}
                   THEN last' = Thrown(call, "PersistenceError")
                   ELSE \E r \in hit :
                          last' = Returned(call, "record",
                                           transformOutput(Merge(r, patch), model, <<>>))
    /\ UNCHANGED <<nextId, crudConn, whVars>>

\* index.ts:345-363
updateMany(model, where, data) ==
    LET call == Call("updateMany", model, where, data, <<>>, <<>>)
        pred == convertWhereClause(where, model)
        hit  == Select(Table(model), pred)
    IN
    /\ IF ~Known(model)
       THEN /\ last' = Thrown(call, "ModelNotFound")
            /\ UNCHANGED store
       ELSE LET patch == transformInput(data, model, "update", 0)
            IN  /\ store' = SetTable(model, UpdateRows(Table(model), pred, patch))
                /\ IF hit = {}
                   THEN last' = Thrown(call, "PersistenceError")
                   ELSE \E r \in hit :
                          last' = Returned(call, "record",
                                           transformOutput(Merge(r, patch), model, <<>>))
    /\ UNCHANGED <<nextId, crudConn, whVars>>

\* DELETE FROM <rows> WHERE pred: the table afterwards
DeleteNone(rows, pred) == rows
DeleteRows(rows, pred) == {r \in rows : ~EvalWhere(pred, r)}

\* What DELETE yields to the client: no row, unless a RETURN clause asks for
\* the rows (the adapter's statement has none)
DeleteOutput(rows, pred) == {}

\* index.ts:329-333
delete(model, where) ==
    LET call == Call("delete", model, where, <<>>, <<>>, <<>>)
        pred == convertWhereClause(where, model)
    IN
    /\ store' = SetTable(model, DeleteRows(Table(model), pred))
    /\ last' = Returned(call, "void", <<>>)
    /\ UNCHANGED <<nextId, crudConn, whVars>>

\* index.ts:334-344  return result.length
deleteMany(model, where) ==
    LET call == Call("deleteMany", model, where, <<>>, <<>>, <<>>)
        pred == convertWhereClause(where, model)
    IN
    /\ store' = SetTable(model, DeleteRows(Table(model), pred))
    /\ last' = Returned(call, "number", Cardinality(DeleteOutput(Table(model), pred)))
    /\ UNCHANGED <<nextId, crudConn, whVars>>

NextCrud ==
    \/ \E m \in Entities : \E d \in CreateInputs(m) : create(m, d)
    \/ \E m \in Entities : \E a \in FindOneInputs(m) : findOne(m, a.where, a.select, a.join)
    \/ \E m \in {"user", "ghost"} : \E a \in ManyArgs(m) : findMany(m, a.given, a.where)
    \/ \E m \in {"user", "ghost"} : \E a \in ManyArgs(m) : count(m, a.given, a.where)
    \/ \E m \in {"user", "account", "ghost"} : \E a \in UpdateInputs(m) :
          update(m, a.where, a.data)
    \/ \E m \in {"user", "ghost"} : \E a \in UpdateManyInputs(m) :
          updateMany(m, a.where, a.data)
    \/ \E m \in {"user", "session", "ghost"} : \E w \in DeleteFilters(m) : delete(m, w)
    \/ \E m \in {"user", "ghost"} : \E w \in ManyFilters(m) : deleteMany(m, w)

SpecCrud == Init /\ [][NextCrud]_vars

-----------------------------------------------------------------------------
(* Claims                                                                  *)

Awaiting(p) == {c \in Callers : ops[c].pc = "awaitConn" /\ ops[c].waitOn = p}

\* C1: at every moment at most one connect call is unsettled, and until the
\* first attempt settles all the calls made have caused exactly one connect
\* call.
C1_SingleFlight ==
    /\ Cardinality(Pending) <= 1
    /\ (Resolved = {} /\ Rejected = {}) =>
           Len(promises) = (IF calls > 0 THEN 1 ELSE 0)

C1_Witness ==
    /\ Len(promises) = 1
    /\ Awaiting(1) = Callers

\* C2: a count whose query matches no row returns the number 0: it does not
\* fail and does not return null.
C2_CountZero ==
    [][\A c \in Callers :
          ( /\ ops[c].pc = "query" /\ ops[c].kind = "count"
            /\ ops[c].conn \in alive
            /\ Select(store.user, convertWhereClause(ops[c].where, "user")) = {}
            /\ ops'[c].pc = "done" )
          => ( /\ ops'[c].result.tag = "ok"
               /\ ops'[c].result.val.count = 0 )]_vars

\* C3: when a connect call fails, every caller awaiting it gets the failure,
\* the adapter is Disconnected, and the next ensureConnection call makes a new
\* connect call.
C3_FailureNotCached ==
    [][ /\ \A p \in DOMAIN promises :
             (promises[p] = "pending" /\ promises'[p] = "rejected") =>
                 /\ \A c \in Awaiting(p) :
                        ops'[c].pc = "done" /\ ops'[c].result.err = "ConnectionError"
                 /\ db' = 0 /\ ~isConnecting' /\ connectionPromise' = 0
        /\ (calls' = calls + 1 /\ db = 0 /\ Pending = {}) =>
               /\ Len(promises') = Len(promises) + 1
               /\ promises'[Len(promises')] = "pending" ]_vars

C3_Witness ==
    /\ \E c \in Callers : ops[c].result.err = "ConnectionError"
    /\ promises = <<"rejected", "pending">>
    /\ \E c \in Callers : ops[c].pc = "awaitConn" /\ ops[c].waitOn = 2

\* C4: when a connect call succeeds, the adapter holds the new handle and is
\* no longer connecting, and every caller awaiting the attempt gets that
\* handle.
C4_SuccessShared ==
    [][\A p \in DOMAIN promises :
          (promises[p] = "pending" /\ promises'[p] = "resolved") =>
              /\ db' = p /\ ~isConnecting' /\ connectionPromise' = 0
              /\ \A c \in Awaiting(p) : ops'[c].pc = "query" /\ ops'[c].conn = db']_vars

C4_Witness ==
    /\ db # 0
    /\ \A c \in Callers : ops[c].pc = "query" /\ ops[c].waitOn = db /\ ops[c].conn = db

\* C5: no operation ends with an error that comes from a dead connection;
\* a connection error reaches the caller only as the failure of a connect
\* call.
C5_DeadNeverSurfaced ==
    \A c \in Callers : ops[c].result.err \notin {"DeadConnection", "NullHandle"}

\* C6: after a transaction rejects, every row its earlier steps created is
\* still in the store.
C6_NoRollback ==
    \A c \in TrxCallers :
        trx[c].status = "rejected" =>
            \A g \in trx[c].writes : \E r \in store.user : r.id = Rid(Things.user[g])

C6_Witness ==
    \E c \in TrxCallers :
        /\ trx[c].status = "rejected"
        /\ trx[c].failed
        /\ trx[c].writes # {}

\* C7 as claimed: all the operations of one transaction run against one
\* handle.
C7_OneHandle ==
    \A c \in TrxCallers : Cardinality(trx[c].handles) <= 1

\* C7 as amended: all the operations of one transaction run against one
\* handle as long as no liveness probe fails while the callback runs.
C7_OneHandleUntilProbeFails ==
    \A c \in TrxCallers :
        ~trx[c].probeFailed => Cardinality(trx[c].handles) <= 1

C7_Witness ==
    \E c \in TrxCallers :
        /\ trx[c].probeFailed
        /\ Cardinality(trx[c].handles) = 2
        /\ trx[c].handles \cap alive # {}

\* C8: a filter of one eq condition selects exactly the rows whose field
\* equals the value, and one in condition exactly the rows whose field is an
\* element of the array.
Expected(rows, model, cond) ==
    {r \in rows :
        LET have == jsonify(Lookup(r, getField(model, cond.field)))
        IN  IF cond.operator = "in"
            THEN \E i \in DOMAIN cond.values : have = cond.values[i]
            ELSE have = cond.value}

C8_EqInExact ==
    whVariant # "none" => whResult = Expected(whRows, whModel, whWhere[1])

\* C9: a findOne whose query matches no row returns null, without error and
\* without a join query.
C9_FindOneMiss ==
    [][\A c \in Callers :
          ( /\ ops[c].pc = "query" /\ ops[c].kind = "findOne"
            /\ ops[c].conn \in alive
            /\ Select(store.user, convertWhereClause(ops[c].where, "user")) = {} )
          => ( /\ ops'[c].pc \in {"query", "done"}
               /\ ops'[c].pc = "done" =>
                    ops'[c].result.tag = "null" /\ ops'[c].joinQueries = 0 )]_vars

C9_Witness ==
    \E c \in Callers :
        /\ ops[c].kind = "findOne" /\ ops[c].pc = "done"
        /\ ops[c].result.tag = "null"
        /\ \E i \in DOMAIN ops[c].join : ops[c].join[i].opt
        /\ store.user # {}

\* C10: an update whose filter matches no row fails with a persistence
\* error and leaves every row as it was.
C10_UpdateMiss ==
    [][\A c \in Callers :
          ( /\ ops[c].pc = "query" /\ ops[c].kind = "update"
            /\ ops[c].conn \in alive
            /\ Select(store.user, convertWhereClause(ops[c].where, "user")) = {}
            /\ ops'[c].pc = "done" )
          => ( /\ ops'[c].result.err = "PersistenceError"
               /\ store' = store )]_vars

C10_Witness ==
    \E c \in Callers :
        /\ ops[c].kind = "update" /\ ops[c].pc = "done"
        /\ ops[c].result.err = "PersistenceError"
        /\ store.user # {}

\* The storage names a payload of logical names writes
Named(model, data) == {getField(model, k) : k \in DOMAIN data}

Matching(model, where) == Select(Table(model), convertWhereClause(where, model))

\* C11: an update that matches gives every matched row the payload's value in
\* every field the payload names and leaves its other fields as they were,
\* leaves every row that does not match as it was, and returns a matched row
\* with the new values together with the unchanged ones.
C11_UpdateMerges ==
    [][(last'.kind = "update" /\ last'.shape = "record") =>
         LET m     == last'.model
             data  == last'.data
             named == Named(m, data)
             hit   == Matching(m, last'.where)
             IsNew(r, r2) ==
                 /\ r2.id = r.id
                 /\ DOMAIN r2 = DOMAIN r \cup named
                 /\ \A k \in DOMAIN data : r2[getField(m, k)] = data[k]
                 /\ \A k \in DOMAIN r \ named : r2[k] = r[k]
         IN  /\ \A r \in hit : \E r2 \in store'[m] : IsNew(r, r2)
             /\ \A r \in Table(m) \ hit : r \in store'[m]
             /\ Cardinality(store'[m]) = Cardinality(store[m])
             /\ \A t \in DOMAIN store \ {m} : store'[t] = store[t]
             /\ \E r \in hit :
                   /\ last'.val.id = jsonify(r.id)
                   /\ \A k \in DOMAIN data : last'.val[k] = data[k]
                   /\ \A k \in DOMAIN schema[m] \ DOMAIN data :
                         getField(m, k) \in DOMAIN r =>
                             last'.val[k] = jsonify(r[getField(m, k)])]_vars

C11_Witness ==
    /\ last.kind = "update" /\ last.shape = "record" /\ last.model = "user"
    /\ last.data = [name |-> Str("y")]
    /\ last.val.name = Str("y") /\ last.val.email = Str("a")
    /\ \E r1, r2 \in store.user :
          /\ Lookup(r1, "name") = Str("y") /\ Lookup(r1, "email") = Str("a")
          /\ Lookup(r2, "name") = Str("x") /\ Lookup(r2, "email") = Str("b")

\* C12: an updateMany that matches merges the payload into every matching
\* row and returns the updated rows, all of them.
C12_UpdateManyAll ==
    [][(last'.kind = "updateMany" /\ Known(last'.model)
          /\ Matching(last'.model, last'.where) # {}) =>
         LET m       == last'.model
             patch   == transformInput(last'.data, m, "update", 0)
             hit     == Matching(m, last'.where)
             updated == {Merge(r, patch) : r \in hit}
             decoded == {transformOutput(r, m, <<>>) : r \in updated}
         IN  /\ store'[m] = (Table(m) \ hit) \cup updated
             /\ IF last'.shape = "array" THEN last'.val = decoded
                ELSE last'.shape = "record" /\ decoded = {last'.val}]_vars

\* C13: a delete completes without error and returns nothing; when its filter
\* matches no row the store is unchanged; and a findOne that follows a delete
\* with the same entity and filter returns null.
C13_DeleteQuiet ==
    [][ /\ last'.kind = "delete" =>
              /\ last'.shape = "void"
              /\ Matching(last'.model, last'.where) = {} => store' = store
        /\ ( /\ last.kind = "delete" /\ last'.kind = "findOne"
             /\ last'.model = last.model /\ last'.where = last.where )
           => last'.shape = "null" ]_vars

RowsStored ==
    Cardinality(store.user) + Cardinality(store.account) + Cardinality(store.session)

C13_Witness ==
    /\ last.kind = "delete" /\ last.shape = "void" /\ last.model = "user"
    /\ store.user # {}
    /\ RowsStored < nextId

\* C14: a deleteMany returns the number of rows that matched its filter
\* before the call, none of which is in the store afterwards; when nothing
\* matched it returns 0 and the store is unchanged.
C14_DeleteManyCount ==
    [][last'.kind = "deleteMany" =>
         LET hit == Matching(last'.model, last'.where)
         IN  /\ last'.shape = "number"
             /\ last'.val = Cardinality(hit)
             /\ \A r \in hit : r \notin store'[last'.model]
             /\ hit = {} => store' = store]_vars

\* C15: when a create has returned a record and the next operation is a
\* findOne of the same entity filtered by the returned id, the findOne returns
\* a record in which every field of the create's input has the input's value.
C15_RoundTrip ==
    [][( /\ last.kind = "create" /\ last.shape = "record"
         /\ last'.kind = "findOne" /\ last'.model = last.model
         /\ last'.where = <<Cond("id", last.val.id)>>
         /\ last'.select = <<>> )
       => /\ last'.shape = "record"
          /\ \A k \in DOMAIN last.data : last'.val[k] = last.data[k]]_vars

Listed(select, f) == \E i \in DOMAIN select : select[i] = f

\* C16 as claimed: every record a findOne returns has an id field, whatever
\* the projection.
C16_IdAlways ==
    (last.kind = "findOne" /\ last.shape = "record") => "id" \in DOMAIN last.val

\* C16 as amended: a record a findOne returns has an id field, the string form
\* of the row's identifier, exactly when the projection is empty or lists id.
C16_IdWhenProjected ==
    (last.kind = "findOne" /\ last.shape = "record") =>
        IF Len(last.select) = 0 \/ Listed(last.select, "id")
        THEN /\ "id" \in DOMAIN last.val
             /\ \E r \in Table(last.model) : last.val.id = Str(r.id.v)
        ELSE "id" \notin DOMAIN last.val

C16_Witness ==
    /\ last.kind = "findOne" /\ last.shape = "record"
    /\ last.select = <<"email">>
    /\ last.val = [email |-> Str("a")]

\* C17: every operation called with an entity that is in no schema fails with
\* the configuration error and leaves the store as it was.
C17_UnknownEntity ==
    [][(last'.kind # "none" /\ ~Known(last'.model)) =>
          /\ last'.shape = "error"
          /\ last'.err = "ModelNotFound"
          /\ store' = store]_vars

\* C18: a findOne that finds its record has sent, after the main query, one
\* query for each relation whose option is enabled and none for the others;
\* the record carries exactly the enabled relations; the user of a session is
\* one record (the user the session refers to) or null, and every other
\* relation is an array.
C18_Joins ==
    (last.kind = "findOne" /\ last.shape = "record") =>
        LET on == {last.join[i].model : i \in {i \in DOMAIN last.join : last.join[i].opt}}
        IN  /\ last.queries = 1 + Cardinality(on)
            /\ DOMAIN last.rels = on
            /\ \A rel \in on :
                  IF last.model = "session" /\ rel = "user"
                  THEN \/ /\ last.rels[rel].shape = "record"
                          /\ \E u \in last.rels[rel].rows :
                                /\ last.rels[rel].rows = {u}
                                /\ u.id = last.val.userId
                       \/ /\ last.rels[rel].shape = "null"
                          /\ \A r \in store.user : Str(r.id.v) # last.val.userId
                  ELSE last.rels[rel].shape = "array"

C18_Witness ==
    /\ last.kind = "findOne" /\ last.model = "session"
    /\ last.join = <<JoinOpt("user", TRUE)>>
    /\ last.queries = 2
    /\ last.rels.user.shape = "record"

C18_WitnessArrays ==
    /\ last.kind = "findOne" /\ last.model = "user"
    /\ last.join = <<JoinOpt("account", FALSE), JoinOpt("session", TRUE)>>
    /\ last.queries = 2
    /\ last.rels.session.shape = "array" /\ last.rels.session.rows # {}

ProbeAnswered(c) == ops[c].pc = "probe" /\ ops'[c].pc # "probe"

\* C19: a call made while a handle is held probes that handle; when the probe
\* succeeds the call returns the probed handle and no connect call is made;
\* when it fails the handle is cleared and the same call awaits a connect
\* attempt; and no caller is ever handed a handle that is dead.
C19_ProbeThenReturn ==
    [][\A c \in Callers :
          /\ (ops[c].pc = "idle" /\ ops'[c].pc # "idle" /\ db # 0) =>
                 ops'[c].pc = "probe" /\ ops'[c].probed = db
          /\ (ProbeAnswered(c) /\ ops[c].probed \in alive) =>
                 /\ ops'[c].pc = "query" /\ ops'[c].conn = ops[c].probed
                 /\ promises' = promises
          /\ (ProbeAnswered(c) /\ ops[c].probed \notin alive) =>
                 /\ db' = 0
                 /\ ops'[c].pc = "awaitConn" /\ ops'[c].waitOn \in Pending'
          /\ (ops[c].pc # "query" /\ ops'[c].pc = "query" /\ ops'[c].conn # 0) =>
                 ops'[c].conn \in alive']_vars

\* C20: a probe that fails after the adapter has installed another handle
\* than the probed one leaves that handle in place and starts no connect call.
C20_StaleFailure ==
    [][\A c \in Callers :
          ( /\ ProbeAnswered(c) /\ ops[c].probed \notin alive
            /\ db # 0 /\ db # ops[c].probed )
          => (db' = db /\ promises' = promises)]_vars

\* ---------------------------------------------------------------------------
\* Connection states (index.ts:140-190)
\* ---------------------------------------------------------------------------

Connected    == db # 0
Connecting   == isConnecting
Disconnected == db = 0 /\ ~isConnecting

\* C21: the adapter is always in exactly one connection state: isConnecting
\* is true exactly when connectionPromise is set, the promise it names is the
\* attempt still pending, and while an attempt is in flight no handle is held.
C21_OneConnectionState ==
    /\ (isConnecting <=> connectionPromise # 0)
    /\ (isConnecting => connectionPromise \in Pending)
    /\ (Connecting => ~Connected)
    /\ Cardinality({s \in {"Disconnected", "Connecting", "Connected"} :
           \/ s = "Disconnected" /\ Disconnected
           \/ s = "Connecting" /\ Connecting
           \/ s = "Connected" /\ Connected}) = 1

\* A reconnect in flight: an earlier handle was installed and has been
\* cleared by a failed probe, and the next attempt is pending.
C21_Witness ==
    /\ Connecting /\ db = 0
    /\ Resolved # {}
    /\ connectionPromise \in Pending

\* How far a call has come: ensureConnection (probe, awaitConn), then the
\* operation's own query, then the queries of its relations.
Stage ==
    [idle |-> 0, probe |-> 1, awaitConn |-> 2, query |-> 3, join |-> 4, done |-> 5]

\* C22: one ensureConnection call starts at most one connection attempt: an
\* attempt is started only by a call that has not awaited one yet, a call
\* whose attempt is rejected fails with the connection error and no further
\* connect call is made for it, and a call never comes back to an earlier
\* stage, so it awaits at most one attempt and submits its own query at most
\* once.
C22_OneAttemptOneQuery ==
    [][/\ Len(promises') <= Len(promises) + 1
       /\ Len(promises') = Len(promises) + 1 =>
             \E c \in Callers :
                /\ ops[c].pc \in {"idle", "probe"}
                /\ ops'[c].pc = "awaitConn" /\ ops'[c].waitOn = Len(promises')
                /\ \A k \in Callers \ {c} : ops'[k] = ops[k]
       /\ \A c \in Callers :
             /\ ( /\ ops[c].pc = "awaitConn"
                  /\ promises'[ops[c].waitOn] = "rejected" ) =>
                    /\ ops'[c].pc = "done"
                    /\ ops'[c].result = Failure("ConnectionError")
                    /\ Len(promises') = Len(promises)
                    /\ ~isConnecting'
             /\ ops'[c].pc # ops[c].pc =>
                    \/ Stage[ops'[c].pc] > Stage[ops[c].pc]
                    \/ ops[c].pc = "done" /\ ops'[c].pc = "idle"
             /\ ops[c].pc = "query" /\ ops'[c] # ops[c] => ops'[c].pc \in {"join", "done"}]_vars

\* An attempt failed, its caller holds the failure, and nothing is in flight.
C22_Witness ==
    \E c \in Callers :
       /\ ops[c].pc = "done"
       /\ ops[c].result = Failure("ConnectionError")
       /\ Pending = {} /\ ~isConnecting
       /\ Len(promises) = 1

\* ---------------------------------------------------------------------------
\* The connection manager under fair settlement: every probe that was sent is
\* answered and every connect call settles (the transport's promises), and
\* nothing else is assumed of the callers.
\* ---------------------------------------------------------------------------

ProbeSettles(c) ==
    (ProbeOk(c) \/ ProbeFail(c)) /\ UNCHANGED <<whVars, last>>

ConnectSettles ==
    \E p \in DOMAIN promises :
       (ConnectSucceed(p) \/ ConnectFail(p)) /\ UNCHANGED <<whVars, last>>

SpecConnFair ==
    /\ SpecConn
    /\ \A c \in Callers : WF_vars(ProbeSettles(c))
    /\ WF_vars(ConnectSettles)

InEnsureConnection(c) == ops[c].pc \in {"probe", "awaitConn"}

\* C23: when every connect call and every probe settles, every
\* ensureConnection call returns or fails: a caller that is probing or
\* awaiting an attempt, its own or one it joined, eventually goes on to its
\* query or holds the connection error.
C23_EnsureConnectionReturns ==
    \A c \in Callers :
       InEnsureConnection(c) ~>
          \/ ops[c].pc = "query"
          \/ ops[c].pc = "done" /\ ops[c].result = Failure("ConnectionError")

\* Both callers await one attempt, which the first started after its probe
\* failed and the second joined after its own probe failed.
C23_Witness ==
    /\ \A c \in Callers : ops[c].pc = "awaitConn" /\ ops[c].waitOn = connectionPromise
    /\ connectionPromise \in Pending
    /\ Resolved # {}

\* ---------------------------------------------------------------------------
\* Filters of every operator, with connectors and with null values, compiled
\* by both compilers and run on a table (index.ts:97-131, part_001:167-209).
\* A condition carries its connector as better-auth's Where does.
\* ---------------------------------------------------------------------------

Operators == {"eq", "ne", "lt", "lte", "gt", "gte", "in", "contains",
              "starts_with", "ends_with"}
Comparisons == {"ne", "lt", "lte", "gt", "gte"}

Condition(f, o, x, k) ==
    [field |-> f, operator |-> o, value |-> x, values |-> <<>>, connector |-> k]

\* Rows of user whose name may be unset.
FilterUserRows ==
    { [id |-> Rid(i), email |-> Str(e), name |-> Str("n"), emailVerified |-> Bool("true")] :
        i \in {"user:g1", "user:g2"}, e \in {"a", "b"} }
    \cup
    { [id |-> Rid(i), email |-> Str(e), emailVerified |-> Bool("true")] :
        i \in {"user:g1", "user:g2"}, e \in {"a", "b"} }

\* One condition of a comparison operator, the value of the field's type.
ComparisonFilters(model) ==
    IF model = "user"
    THEN { <<Condition("email", o, Str(x), "none")>> : o \in Comparisons, x \in {"a", "b"} }
    ELSE { <<Condition("count", o, Num(x), "none")>> : o \in Comparisons, x \in NumberTexts }
         \cup
         { <<Condition("key", o, Str(x), "none")>> : o \in Comparisons, x \in {"a", "1"} }

\* One condition whose value is null or undefined.
NullFilters(model) ==
    { <<Condition(f, o, x, "none")>> :
        f \in (IF model = "user" THEN {"name", "email"} ELSE {"key"}),
        o \in Operators, x \in {[t |-> "null", v |-> ""], [t |-> "undefined", v |-> ""]} }

\* Two conditions, the second with its connector.
PairFilters(model) ==
    IF model = "user"
    THEN { <<Condition("email", "eq", Str(x), "none"), Condition(f, "eq", y, k)>> :
             x \in {"a", "b"},
             f \in {"email", "name"}, y \in {Str("b"), Str("n")}, k \in {"AND", "OR", "none"} }
    ELSE {}

FilterInputs(model) ==
    ComparisonFilters(model) \cup NullFilters(model) \cup PairFilters(model)

InitFilter ==
    /\ AdapterIdle
    /\ whModel \in {"user", "rateLimit"}
    /\ whRows \in {S \in SUBSET (IF whModel = "user" THEN FilterUserRows ELSE RateLimitRows) :
                      Cardinality(S) <= MaxWhRows /\ UniqueIds(S)}
    /\ whWhere = <<>>
    /\ whVariant = "none"
    /\ whResult = {}

NextFilter ==
    \/ \E w \in FilterInputs(whModel) : ExecConvert(w)
    \/ \E w \in FilterInputs(whModel) : ExecBuild(w)

SpecFilter == InitFilter /\ [][NextFilter]_vars

\* The predicate a variant compiled for the filter of the state.
Compiled ==
    IF whVariant = "index" THEN convertWhereClause(whWhere, whModel)
    ELSE buildWhereClause(whWhere)

\* What a condition asks of a row, by the operator table.
Holds(cond, row, model) ==
    LET have == jsonify(Lookup(row, getField(model, cond.field)))
        x    == cond.value
    IN  CASE x.t \in {"null", "undefined"} -> have = NONE
          [] cond.operator = "eq"   -> have = x
          [] cond.operator = "ne"   -> have # x
          [] cond.operator = "lt"   -> Less(have, x)
          [] cond.operator = "lte"  -> ~Less(x, have)
          [] cond.operator = "gt"   -> Less(x, have)
          [] cond.operator = "gte"  -> ~Less(have, x)

\* C24: each condition is joined to the previous one with its own connector:
\* with OR a row satisfying either condition is selected, with AND or with no
\* connector only a row satisfying both.
C24_Connectors ==
    (whVariant # "none" /\ Len(whWhere) = 2) =>
        whResult = {r \in whRows :
                       IF whWhere[2].connector = "OR"
                       THEN Holds(whWhere[1], r, whModel) \/ Holds(whWhere[2], r, whModel)
                       ELSE Holds(whWhere[1], r, whModel) /\ Holds(whWhere[2], r, whModel)}

\* C25: for ne, lt, lte, gt and gte the compiled condition selects exactly the
\* rows whose field stands in that relation to the given value.
C25_Comparisons ==
    ( /\ whVariant # "none" /\ Len(whWhere) = 1
      /\ whWhere[1].operator \in Comparisons
      /\ whWhere[1].value.t \notin {"null", "undefined"} )
    => whResult = {r \in whRows : Holds(whWhere[1], r, whModel)}

\* C26: a condition whose value is null or undefined compiles to
\* `field = NONE` whatever its operator, and selects the rows that do not have
\* the field.
C26_NullIsUnset ==
    ( /\ whVariant # "none" /\ Len(whWhere) = 1
      /\ whWhere[1].value.t \in {"null", "undefined"} )
    => /\ Compiled = <<Frag("=", getField(whModel, whWhere[1].field), NONE)>>
       /\ whResult = {r \in whRows : getField(whModel, whWhere[1].field) \notin DOMAIN r}

\* A null condition of an operator other than eq has selected the one row of
\* two whose name is unset.
C26_Witness ==
    /\ whVariant # "none" /\ Len(whWhere) = 1
    /\ whWhere[1].value.t \in {"null", "undefined"}
    /\ whWhere[1].operator \in {"gt", "contains"}
    /\ Cardinality(whRows) = 2 /\ Cardinality(whResult) = 1

\* C27: no operation submits a statement whose WHERE has an empty predicate,
\* and findMany and count called with the empty filter list submit the
\* statement they submit when no filter is given, which has no WHERE.
C27_NoVacantWhere ==
    /\ last.stmt # "vacant"
    /\ (last.kind = "findMany" /\ last.given /\ Len(last.where) = 0) =>
           last.stmt = WhereIfGiven(FALSE, <<>>)
    /\ (last.kind = "count" /\ last.given /\ Len(last.where) = 0) =>
           last.stmt = WhereIfAny(FALSE, <<>>)

\* ---------------------------------------------------------------------------
\* The value codec on payloads: transformInput / withApplyDefault of the
\* legacy adapter and transformValueForDB of the factory variant, applied to
\* the payload of a create or of an update.
\* ---------------------------------------------------------------------------

Payloads(model) ==
    CASE model = "user" ->
            { [email |-> Str("a")],
              [email |-> Str("a"), name |-> Null],
              [email |-> Str("a"), name |-> Str("2024-01-01")],
              [email |-> Str("a"), emailVerified |-> Undefined],
              [email |-> Str("a"), emailVerified |-> Null],
              [email |-> Str("a"), emailVerified |-> Bool("true")],
              [email |-> Str("b"), name |-> Str("x"), emailVerified |-> Bool("false")] }
      [] model = "session" ->
            { [userId |-> u, token |-> t] :
                u \in {Str("user:g1"), Str("g1"), Rid("user:g1"), Null},
                t \in {Str("t"), Str("2024-01-01"), Undefined} }
      [] model = "account" ->
            { [userId |-> u, accountId |-> a] :
                u \in {Str("user:g1"), Rid("user:g2")}, a \in {Str("p1"), Null} }
      [] OTHER ->
            { [userId |-> Str("user:g1")],
              [userId |-> Str("user:g1"), role |-> Null],
              [userId |-> Str("user:g1"), role |-> Str("admin")],
              [userId |-> Str("user:g1"), createdAt |-> Null],
              [userId |-> Str("user:g1"), createdAt |-> Undefined],
              [userId |-> Rid("user:g1"), role |-> Undefined, createdAt |-> Str("2024-01-01")] }

Encoded(action, model, data, content) ==
    [NoCall EXCEPT !.kind = action, !.model = model, !.data = data, !.val = content]

\* index.ts:198-199, 317  transformInput(data, model, action)
Encode(model, action, data) ==
    /\ last' = Encoded(action, model, data, transformInput(data, model, action, 1))
    /\ whVariant' = "index"
    /\ UNCHANGED <<crudConn, store, nextId, whModel, whRows, whWhere, whResult>>

\* part_001:259-262, 345-348
EncodeFactory(model, action, data) ==
    /\ last' = Encoded(action, model, data, transformPayload(data))
    /\ whVariant' = "factory"
    /\ UNCHANGED <<crudConn, store, nextId, whModel, whRows, whWhere, whResult>>

CodecModels == {"user", "session", "account", "member"}

NextCodec ==
    \/ \E m \in CodecModels : \E a \in {"create", "update"} : \E d \in Payloads(m) :
          Encode(m, a, d)
    \/ \E m \in CodecModels : \E a \in {"create", "update"} : \E d \in Payloads(m) :
          EncodeFactory(m, a, d)

SpecCodec == Init /\ [][NextCodec]_vars

\* The fields of a payload that carry a value (null included).
Carried(data) == {k \in DOMAIN data : data[k].t # "undefined"}

\* C28: on update every payload value reaches the store as it was given, and
\* nothing else does: no default for a null or missing field, no identifier
\* or date conversion.
C28_UpdateUnchanged ==
    (last.kind = "update") =>
        /\ Carried(last.val) = {getField(last.model, k) : k \in Carried(last.data)}
        /\ \A k \in Carried(last.data) :
              last.val[getField(last.model, k)] = last.data[k]

\* C29: on create, every schema field that is omitted, undefined or null in
\* the input and has a default holds the default in the inserted row: the
\* generator's result for a function, the literal otherwise, falsy literals
\* included.
C29_DefaultsApplied ==
    (last.kind = "create" /\ whVariant = "index") =>
        LET fields == schema[last.model]
            row    == CreatedRow(last.model, last.val)
        IN  \A f \in DOMAIN fields :
               ( /\ fields[f].defaultValue # NoDefault
                 /\ (f \in DOMAIN last.data => last.data[f].t \in {"undefined", "null"}) )
               => /\ fields[f].fieldName \in DOMAIN row
                  /\ row[fields[f].fieldName] =
                        IF fields[f].defaultValue.t = "function"
                        THEN Invoke(fields[f].defaultValue)
                        ELSE fields[f].defaultValue

\* The identifier fields of an encoded payload, by variant.
IdentifierFields ==
    IF whVariant = "index"
    THEN {f \in DOMAIN schema[last.model] :
             \/ schema[last.model][f].references # ""
             \/ shouldConvertToRecordId(schema[last.model][f].fieldName, last.model)}
    ELSE {f \in DOMAIN last.data : ConvertedField(f)}

Reencoded(f) ==
    IF whVariant = "index"
    THEN withApplyDefault(last.val[f], schema[last.model][f], "create", last.model)
    ELSE transformValueForDB(f, last.val[f])

\* C30: encode (action create) is idempotent on identifier fields: a native
\* identifier is returned as it is, encoding an encoded value changes nothing,
\* and the identifier's text is the input's text, prefixed with the table at
\* most once.
C30_EncodeIdempotent ==
    (last.kind = "create") =>
        \A f \in IdentifierFields \cap Carried(last.data) \cap DOMAIN last.val :
           /\ last.data[f].t = "record" => last.val[f] = last.data[f]
           /\ Reencoded(f) = last.val[f]
           /\ last.data[f].t = "string" =>
                 /\ last.val[f].t = "record"
                 /\ last.val[f].v \in {last.data[f].v, "user:" \o last.data[f].v}

\* A bare id was prefixed with its table by the factory variant's create.
C30_Witness ==
    /\ last.kind = "create" /\ whVariant = "factory" /\ last.model = "session"
    /\ last.data.userId = Str("g1")
    /\ last.val.userId = Rid("user:g1")

====
